---- MODULE Spec2Model ----
(***************************************************************************)
(* Model of backend/src/scripts/youtube_transcript_fetcher.py:             *)
(* fetch_transcript(video_id, proxy_config) and the command-line entry     *)
(* point main().  The process is sequential; pc is its position in main(). *)
(* The external library (youtube_transcript_api), json.loads and the file  *)
(* system are the environment: every outcome they can produce is a         *)
(* nondeterministic choice of the action that calls them.                  *)
(*                                                                         *)
(* Python indices are 0-based: sys.argv[i] is argv[i + 1] here.            *)
(* Times (start, duration) are modelled as naturals; float() of a number   *)
(* keeps its numeric value.  Only Exception subclasses are modelled as     *)
(* failures (KeyboardInterrupt / SystemExit are not errors of a stage).    *)
(***************************************************************************)
EXTENDS Integers, Sequences, FiniteSets, TLC

VARIABLES pc, argv, proxy_config, result, propagated, failure, fetched,
          calls, invocations, outfile, written, stdout, stderr, exitcode

vars == <<pc, argv, proxy_config, result, propagated, failure, fetched,
          calls, invocations, outfile, written, stdout, stderr, exitcode>>

\* ---------------------------------------------------------------- bounds
MaxSegments == 2
MaxStart == 1
MaxDuration == 2

\* ------------------------------------------------------- python values
USER == "proxy_username"
PASS == "proxy_password"

PyValue(type, truthy, members, items) ==
    [type |-> type, truthy |-> truthy, members |-> members, items |-> items]

\* members: the keys k for which `k in value` is true;
\* items:   the <<key, value>> pairs of a dict
NoneValue == PyValue("none", FALSE, {}, {})

JsonError == [type |-> "JSONDecodeError", truthy |-> FALSE, members |-> {}, items |-> {}]

\* json.loads on the command-line strings the model draws from
JsonLoads(s) ==
    CASE s = "null"  -> NoneValue
      [] s = "false" -> PyValue("bool", FALSE, {}, {})
      [] s = "true"  -> PyValue("bool", TRUE, {}, {})
      [] s = "0"     -> PyValue("int", FALSE, {}, {})
      [] s = "5"     -> PyValue("int", TRUE, {}, {})
      [] s = "\"\""  -> PyValue("str", FALSE, {}, {})
      [] s = "\"proxy_username:proxy_password\""
                     -> PyValue("str", TRUE, {USER, PASS}, {})
      [] s = "[]"    -> PyValue("list", FALSE, {}, {})
      [] s = "[\"proxy_username\", \"proxy_password\"]"
                     -> PyValue("list", TRUE, {USER, PASS}, {})
      [] s = "{}"    -> PyValue("dict", FALSE, {}, {})
      [] s = "{\"proxy_username\": \"u\"}"
                     -> PyValue("dict", TRUE, {USER}, {<<USER, "u">>})
      [] s = "{\"proxy_password\": \"p\"}"
                     -> PyValue("dict", TRUE, {PASS}, {<<PASS, "p">>})
      [] s = "{\"proxy_username\": \"u\", \"proxy_password\": \"p\"}"
                     -> PyValue("dict", TRUE, {USER, PASS},
                                {<<USER, "u">>, <<PASS, "p">>})
      [] OTHER       -> JsonError

ProxyArgs ==
    { "not-json", "", "{\"proxy_username\": ", "null", "false", "true", "0", "5",
      "\"\"", "\"proxy_username:proxy_password\"", "[]",
      "[\"proxy_username\", \"proxy_password\"]", "{}",
      "{\"proxy_username\": \"u\"}", "{\"proxy_password\": \"p\"}",
      "{\"proxy_username\": \"u\", \"proxy_password\": \"p\"}" }

VideoIds == {"abc123", ""}
OutputFiles == {"out.json"}
Program == "youtube_transcript_fetcher.py"

ArgvSet ==
    { <<Program>> }
    \cup { <<Program, v>> : v \in VideoIds }
    \cup { <<Program, v, o>> : v \in VideoIds, o \in OutputFiles }
    \cup { <<Program, v, o, p>> : v \in VideoIds, o \in OutputFiles, p \in ProxyArgs }
    \cup { <<Program, v, o, p, "extra">> :
              v \in VideoIds, o \in OutputFiles, p \in {"not-json", "null"} }

\* ------------------------------------------------------- exceptions
Exc(type, msg) == [type |-> type, msg |-> msg]
NoExc == Exc("none", "")
Str(e) == e.msg

Ok(v) == [raised |-> FALSE, exc |-> NoExc, value |-> v]
Raise(e, dflt) == [raised |-> TRUE, exc |-> e, value |-> dflt]


\* ------------------------------------------- the external capability
\* A segment the library hands back.  attrs = FALSE is an element that does
\* not expose text/start/duration (reading snippet.text raises).
Segment(text, start, duration) ==
    [text |-> text, start |-> start, duration |-> duration, attrs |-> TRUE]
BadSegment == [text |-> "", start |-> 0, duration |-> 0, attrs |-> FALSE]

Texts == {"hi", "yo"}
Segments ==
    { Segment(t, s, d) : t \in Texts, s \in 0..MaxStart, d \in 1..MaxDuration }
    \cup {BadSegment}

SeqsUpTo(S, n) == UNION { [1..k -> S] : k \in 0..n }

\* what fetch() returns: an ordered sequence of segments, or None
Transcript(absent, segs) == [absent |-> absent, segs |-> segs]
NoTranscript == Transcript(TRUE, <<>>)
Transcripts == { Transcript(FALSE, q) : q \in SeqsUpTo(Segments, MaxSegments) }
               \cup {NoTranscript}

FetchErrors == { Exc("VideoUnavailable", "video unavailable"),
                 Exc("RequestBlocked", "request blocked") }

FetchOutcomes == { Ok(t) : t \in Transcripts }
                 \cup { Raise(e, NoTranscript) : e \in FetchErrors }

\* outcomes of WebshareProxyConfig(...), of YouTubeTranscriptApi(...) and of
\* ytt_api.fetch(video_id) in one invocation
Envs == [cfg : {"ok", "raise"}, client : {"ok", "raise"}, fetch : FetchOutcomes]

Call(op, path, arg) == [op |-> op, path |-> path, arg |-> arg]

\* ----------------------------------------------------- fetch_transcript
\* line 29: proxy_config and 'proxy_username' in proxy_config
\*                       and 'proxy_password' in proxy_config
KeyCheck(cfg) ==
    IF ~cfg.truthy THEN Ok(FALSE)
    ELSE IF cfg.type \in {"int", "bool"}
         THEN Raise(Exc("TypeError", "argument of type is not iterable"), FALSE)
         ELSE Ok(USER \in cfg.members /\ PASS \in cfg.members)

\* proxy_config['proxy_username'] (lines 32-33)
Subscript(cfg, key) ==
    IF cfg.type = "dict"
    THEN Ok((CHOOSE p \in cfg.items : p[1] = key)[2])
    ELSE Raise(Exc("TypeError", "indices must be integers"), "")

\* ytt_api.fetch(video_id) (lines 40 and 46), retried once on a failure
FetchViaRetry(path, video_id, env) ==
    [calls |-> IF env.fetch.raised
               THEN <<Call("fetch", path, video_id), Call("fetch", path, video_id)>>
               ELSE <<Call("fetch", path, video_id)>>,
     out   |-> env.fetch]

\* ytt_api.fetch(video_id) (lines 40 and 46): one call, no retry
FetchVia(path, video_id, env) ==
    [calls |-> <<Call("fetch", path, video_id)>>, out |-> env.fetch]

Step(r, exc, cs, value) ==
    [raised |-> r, exc |-> exc, calls |-> cs, value |-> value]

\* lines 31-40
ProxyPath(video_id, cfg, env) ==
    LET u == Subscript(cfg, USER)
        p == Subscript(cfg, PASS)
        c1 == <<Call("WebshareProxyConfig", "proxy", u.value)>>
        c2 == c1 \o <<Call("YouTubeTranscriptApi", "proxy", "")>>
        f == FetchVia("proxy", video_id, env)
    IN  IF u.raised THEN Step(TRUE, u.exc, <<>>, NoTranscript)
        ELSE IF p.raised THEN Step(TRUE, p.exc, <<>>, NoTranscript)
        ELSE IF env.cfg = "raise"
             THEN Step(TRUE, Exc("ValueError", "bad proxy credentials"), c1, NoTranscript)
        ELSE IF env.client = "raise"
             THEN Step(TRUE, Exc("RuntimeError", "client construction failed"), c2, NoTranscript)
        ELSE Step(f.out.raised, f.out.exc, c2 \o f.calls, f.out.value)

\* lines 43-46
DefaultPath(video_id, env) ==
    LET c1 == <<Call("YouTubeTranscriptApi", "default", "")>>
        f == FetchVia("default", video_id, env)
    IN  IF env.client = "raise"
        THEN Step(TRUE, Exc("RuntimeError", "client construction failed"), c1, NoTranscript)
        ELSE Step(f.out.raised, f.out.exc, c1 \o f.calls, f.out.value)

\* lines 55-59
ToSnippetDict(snippet) ==
    IF snippet.attrs
    THEN Ok([text |-> snippet.text, start |-> snippet.start,
             duration |-> snippet.duration])
    ELSE Raise(Exc("AttributeError", "object has no attribute text"),
               [text |-> "", start |-> 0, duration |-> 0])

RECURSIVE AppendAll(_, _)
\* lines 53-60: the for loop, acc is snippets_list so far
AppendAll(rest, acc) ==
    IF rest = <<>> THEN Ok(acc)
    ELSE LET d == ToSnippetDict(Head(rest))
         IN  IF d.raised THEN Raise(d.exc, acc)
             ELSE AppendAll(Tail(rest), Append(acc, d.value))

RECURSIVE PrependAll(_, _)
PrependAll(rest, acc) ==
    IF rest = <<>> THEN Ok(acc)
    ELSE LET d == ToSnippetDict(Head(rest))
         IN  IF d.raised THEN Raise(d.exc, acc)
             ELSE PrependAll(Tail(rest), <<d.value>> \o acc)

\* snippets_list.insert(0, ...) instead of append
ConvertSnippetsReversed(transcript_list) ==
    IF ~transcript_list.absent /\ Len(transcript_list.segs) > 0
    THEN PrependAll(transcript_list.segs, <<>>)
    ELSE Ok(<<>>)

\* lines 50-60: snippets_list
ConvertSnippets(transcript_list) ==
    IF ~transcript_list.absent /\ Len(transcript_list.segs) > 0
    THEN AppendAll(transcript_list.segs, <<>>)
    ELSE Ok(<<>>)

\* line 65: float() of a number keeps its numeric value (0 == 0.0 in Python);
\* the library hands start and duration back as numbers
Float(x) == x

\* total duration taken from the first snippet
TotalDurationFirst(snippets_list) ==
    IF Len(snippets_list) > 0
    THEN Float(snippets_list[1].start) + Float(snippets_list[1].duration)
    ELSE 0

\* lines 49, 63-65
TotalDuration(snippets_list) ==
    IF Len(snippets_list) > 0
    THEN LET last_snippet == snippets_list[Len(snippets_list)]
         IN  Float(last_snippet.start) + Float(last_snippet.duration)
    ELSE 0

\* off by one
SnippetCountLastIndex(snippets_list) ==
    IF Len(snippets_list) > 0 THEN Len(snippets_list) - 1 ELSE 0

\* line 72
SnippetCount(snippets_list) == Len(snippets_list)

\* lines 68-74
TranscriptData(video_id, snippets_list) ==
    [video_id |-> video_id,
     snippets |-> snippets_list,
     total_duration |-> TotalDuration(snippets_list),
     snippet_count |-> SnippetCount(snippets_list),
     success |-> TRUE]

\* lines 79-83
FailureResult(video_id, e) ==
    [video_id |-> video_id, error |-> Str(e), success |-> FALSE]

\* an except clause that names only the library's errors
CaughtLibraryOnly(e) == e.type \in {"VideoUnavailable", "RequestBlocked"}

\* line 78: except Exception
Caught(e) == TRUE

NoResult == [unset |-> TRUE]

\* lines 27-83
fetch_transcript(video_id, cfg, env) ==
    LET chk == KeyCheck(cfg)
        got == IF chk.raised THEN Step(TRUE, chk.exc, <<>>, NoTranscript)
               ELSE IF chk.value THEN ProxyPath(video_id, cfg, env)
               ELSE DefaultPath(video_id, env)
        conv == ConvertSnippets(got.value)
        exc  == IF got.raised THEN got.exc ELSE conv.exc
        fail == got.raised \/ conv.raised
    IN  [calls      |-> got.calls,
         fetched    |-> got.value,
         failed     |-> fail,
         exc        |-> exc,
         propagated |-> fail /\ ~Caught(exc),
         result     |-> IF fail
                        THEN (IF Caught(exc) THEN FailureResult(video_id, exc)
                                             ELSE NoResult)
                        ELSE TranscriptData(video_id, conv.value)]


\* ------------------------------------------------------------- main()
Msg(text, arg) == [text |-> text, arg |-> arg]
UsageMsg == Msg("Usage: python youtube_transcript_fetcher.py <video_id> <output_file> [proxy_config_json]", "")
InvalidProxyMsg == Msg("Invalid proxy configuration JSON", "")
WrittenMsg(output_file) == Msg("Transcript data written to", output_file)
WriteErrorMsg(e) == Msg("Error writing to output file:", e)
TracebackMsg(e) == Msg("Traceback (most recent call last)", Str(e))

\* the output file: untouched (absent, or stale from an earlier run),
\* truncated and partly written, or holding the whole JSON text
File(state, content) == [state |-> state, content |-> content]
Serialized(res) == [json |-> res, indent |-> 2, ensure_ascii |-> FALSE]
NoContent == [json |-> NoResult, indent |-> 0, ensure_ascii |-> FALSE]

\* outcomes of open(output_file, 'w') and json.dump (lines 108-109)
WriteOutcomes == {"ok", "open_fail", "dump_fail"}

\* line 87
MissingArgs(a) == Len(a) < 3

\* line 96
HasProxyArg(a) == Len(a) > 3

Init ==
    /\ pc = "start"
    /\ argv \in ArgvSet
    /\ proxy_config = NoneValue
    /\ result = NoResult
    /\ propagated = FALSE
    /\ failure = NoExc
    /\ fetched = NoTranscript
    /\ calls = <<>>
    /\ invocations = 0
    /\ outfile \in {File("absent", NoContent), File("stale", NoContent)}
    /\ written = "none"
    /\ stdout = <<>>
    /\ stderr = <<>>
    /\ exitcode = -1

\* the usage message printed without file=sys.stderr
UsageToStdout ==
    /\ pc = "start"
    /\ MissingArgs(argv)
    /\ stdout' = Append(stdout, UsageMsg)
    /\ exitcode' = 1
    /\ pc' = "exit"
    /\ UNCHANGED <<argv, proxy_config, result, propagated, failure, fetched,
                   calls, invocations, outfile, written, stderr>>

\* lines 87-89
Usage ==
    /\ pc = "start"
    /\ MissingArgs(argv)
    /\ stderr' = Append(stderr, UsageMsg)
    /\ exitcode' = 1
    /\ pc' = "exit"
    /\ UNCHANGED <<argv, proxy_config, result, propagated, failure, fetched,
                   calls, invocations, outfile, written, stdout>>

\* lines 91-96, no third argument
NoProxyArg ==
    /\ pc = "start"
    /\ ~MissingArgs(argv)
    /\ ~HasProxyArg(argv)
    /\ proxy_config' = NoneValue
    /\ pc' = "fetch"
    /\ UNCHANGED <<argv, result, propagated, failure, fetched, calls,
                   invocations, outfile, written, stdout, stderr, exitcode>>

\* lines 96-98, json.loads returns
ParseProxy ==
    /\ pc = "start"
    /\ ~MissingArgs(argv)
    /\ HasProxyArg(argv)
    /\ JsonLoads(argv[4]) # JsonError
    /\ proxy_config' = JsonLoads(argv[4])
    /\ pc' = "fetch"
    /\ UNCHANGED <<argv, result, propagated, failure, fetched, calls,
                   invocations, outfile, written, stdout, stderr, exitcode>>

\* the JSONDecodeError swallowed: carry on without a proxy
InvalidProxyIgnored ==
    /\ pc = "start"
    /\ ~MissingArgs(argv)
    /\ HasProxyArg(argv)
    /\ JsonLoads(argv[4]) = JsonError
    /\ stderr' = Append(stderr, InvalidProxyMsg)
    /\ pc' = "fetch"
    /\ UNCHANGED <<argv, proxy_config, result, propagated, failure, fetched,
                   calls, invocations, outfile, written, stdout, exitcode>>

\* lines 96-101, json.loads raises JSONDecodeError
InvalidProxy ==
    /\ pc = "start"
    /\ ~MissingArgs(argv)
    /\ HasProxyArg(argv)
    /\ JsonLoads(argv[4]) = JsonError
    /\ stderr' = Append(stderr, InvalidProxyMsg)
    /\ exitcode' = 1
    /\ pc' = "exit"
    /\ UNCHANGED <<argv, proxy_config, result, propagated, failure, fetched,
                   calls, invocations, outfile, written, stdout>>

\* line 104: result = fetch_transcript(video_id, proxy_config); an
\* exception leaving fetch_transcript would end the process with a traceback
CallFetchTranscript ==
    /\ pc = "fetch"
    /\ \E env \in Envs :
         LET r == fetch_transcript(argv[2], proxy_config, env)
         IN  /\ result' = r.result
             /\ propagated' = r.propagated
             /\ failure' = IF r.failed THEN r.exc ELSE NoExc
             /\ fetched' = r.fetched
             /\ calls' = calls \o r.calls
             /\ invocations' = invocations + 1
             /\ IF r.propagated
                THEN /\ pc' = "exit"
                     /\ exitcode' = 1
                     /\ stderr' = Append(stderr, TracebackMsg(r.exc))
                ELSE /\ pc' = "write"
                     /\ UNCHANGED <<exitcode, stderr>>
    /\ UNCHANGED <<argv, proxy_config, outfile, written, stdout>>

\* the exit status made to follow the result's success field
ExitStatusFromSuccess(res) == IF res.success THEN 0 ELSE 1

\* main() returns normally after line 110: exit status 0
ExitStatusAfterWrite(res) == 0

\* the confirmation printed whether or not the write went through
ConfirmationAlways(w, output_file) == <<WrittenMsg(output_file)>>

\* line 110, reached only when the with block ended without an exception
Confirmation(w, output_file) ==
    IF w = "ok" THEN <<WrittenMsg(output_file)>> ELSE <<>>

\* lines 108-109: what the file holds afterwards
FileAfterWrite(w, old, res) ==
    CASE w = "ok"        -> File("complete", Serialized(res))
      [] w = "open_fail" -> old
      [] w = "dump_fail" -> File("partial", NoContent)

\* lines 107-113
WriteOutput ==
    /\ pc = "write"
    /\ \E w \in WriteOutcomes :
         /\ written' = w
         /\ outfile' = FileAfterWrite(w, outfile, result)
         /\ stdout' = stdout \o Confirmation(w, argv[3])
         /\ IF w = "ok"
            THEN /\ exitcode' = ExitStatusAfterWrite(result)
                 /\ UNCHANGED stderr
            ELSE /\ exitcode' = 1
                 /\ stderr' = Append(stderr, WriteErrorMsg(w))
    /\ pc' = "exit"
    /\ UNCHANGED <<argv, proxy_config, result, propagated, failure, fetched,
                   calls, invocations>>

Next ==
    \/ Usage
    \/ NoProxyArg
    \/ ParseProxy
    \/ InvalidProxy
    \/ CallFetchTranscript
    \/ WriteOutput

Spec == Init /\ [][Next]_vars


\* ------------------------------------------------------------ properties
Returned == invocations > 0
Succeeded == Returned /\ ~propagated /\ failure = NoExc
Failed == Returned /\ failure # NoExc

FetchCalls == SelectSeq(calls, LAMBDA c : c.op = "fetch")
ProxyConstructions ==
    SelectSeq(calls, LAMBDA c : c.path = "proxy" /\ c.op # "fetch")
DefaultConstructions ==
    SelectSeq(calls, LAMBDA c : c.path = "default" /\ c.op = "YouTubeTranscriptApi")

HasBothKeys(cfg) == USER \in cfg.members /\ PASS \in cfg.members

BadProxyArg == ~MissingArgs(argv) /\ HasProxyArg(argv) /\ JsonLoads(argv[4]) = JsonError
GoodArgs == ~MissingArgs(argv) /\ ~BadProxyArg
Untouched == outfile.state \in {"absent", "stale"}
WriteFailed == written \in {"open_fail", "dump_fail"}

\* C1: whatever stage of fetch_transcript fails (key check, client
\* construction, fetch, reshaping), the call returns the failure variant
\* {video_id, error: text of the error, success: false}; no error leaves it.
C1_NeverPropagates ==
    Returned =>
        /\ ~propagated
        /\ Failed => result = [video_id |-> argv[2], error |-> Str(failure),
                               success |-> FALSE]
        /\ ~Failed => result.success = TRUE

C1_Witness ==
    /\ Failed
    /\ failure.type = "TypeError"
    /\ result = [video_id |-> "abc123", error |-> "argument of type is not iterable",
                 success |-> FALSE]

\* C2: with at least two positional arguments and a proxy argument that is
\* absent or parses, fetch_transcript is called once, its result (either
\* variant) is what is written to output_file, and a successful write ends
\* the process with exit code 0 whatever result.success is.
C2_FailureNotFatal ==
    (pc = "exit" /\ GoodArgs) =>
        /\ invocations = 1
        /\ written # "none"
        /\ written = "ok" => /\ outfile = File("complete", Serialized(result))
                             /\ exitcode = 0

C2_Witness ==
    /\ pc = "exit"
    /\ Failed
    /\ failure.type = "VideoUnavailable"
    /\ outfile = File("complete", Serialized(result))
    /\ exitcode = 0

\* C3: a third argument that is not JSON: fetch_transcript is never called
\* and output_file is never opened or written; the process ends with the
\* error on the error stream and exit code 1.
C3_InvalidProxyIsFatal ==
    BadProxyArg =>
        /\ invocations = 0
        /\ calls = <<>>
        /\ written = "none"
        /\ Untouched
        /\ pc \in {"start", "exit"}
        /\ pc = "exit" => /\ exitcode = 1
                          /\ stderr = <<InvalidProxyMsg>>

C3_Witness ==
    /\ BadProxyArg
    /\ argv[4] = "not-json"
    /\ pc = "exit"
    /\ exitcode = 1

\* C4: fewer than two positional arguments: usage message on the error
\* stream, exit code 1, no fetch, no output file, nothing on standard output.
C4_UsageIsFatal ==
    MissingArgs(argv) =>
        /\ invocations = 0
        /\ calls = <<>>
        /\ written = "none"
        /\ Untouched
        /\ stdout = <<>>
        /\ pc \in {"start", "exit"}
        /\ pc = "exit" => /\ exitcode = 1
                          /\ stderr = <<UsageMsg>>

C4_Witness ==
    /\ Len(argv) = 2
    /\ pc = "exit"
    /\ exitcode = 1
    /\ stderr = <<UsageMsg>>

\* C5: the confirmation line and exit code 0 come only after output_file
\* is completely written; a failed open or write gives an error on the
\* error stream, no confirmation and exit code 1; exit code 1 comes only
\* from missing arguments, malformed proxy JSON or a write failure.
C5_ConfirmationOnlyAfterWrite ==
    /\ (stdout # <<>> \/ exitcode = 0) =>
           /\ written = "ok"
           /\ outfile.state = "complete"
           /\ stdout = <<WrittenMsg(argv[3])>>
    /\ WriteFailed =>
           /\ stdout = <<>>
           /\ exitcode = 1
           /\ stderr = <<WriteErrorMsg(written)>>
           /\ outfile.state # "complete"
    /\ exitcode = 1 => (MissingArgs(argv) \/ BadProxyArg \/ WriteFailed)

C5_Witness ==
    /\ pc = "exit"
    /\ written = "dump_fail"
    /\ outfile.state = "partial"
    /\ exitcode = 1
    /\ stdout = <<>>

\* C6: in a success result total_duration is start + duration of the last
\* snippet, and 0 when snippets is empty (also when the fetch returned an
\* empty or absent sequence).
C6_TotalDuration ==
    Succeeded =>
        /\ result.snippets # <<>> =>
              result.total_duration
                  = result.snippets[Len(result.snippets)].start
                    + result.snippets[Len(result.snippets)].duration
        /\ result.snippets = <<>> => result.total_duration = 0
        /\ (fetched.absent \/ fetched.segs = <<>>) =>
              (result.snippets = <<>> /\ result.total_duration = 0)

C6_Witness ==
    /\ Succeeded
    /\ Len(result.snippets) = 2
    /\ result.snippets[1].start + result.snippets[1].duration = 1
    /\ result.total_duration = 3

\* C7: a proxy_config that is None or lacks either credential key never
\* leads to the proxy-aware client and the call goes down the default
\* client path; the proxy-aware client is built only when both keys are there.
C7_DefaultPathWithoutKeys ==
    Returned =>
        /\ ~HasBothKeys(proxy_config) =>
              /\ ProxyConstructions = <<>>
              /\ Len(DefaultConstructions) = 1
        /\ ProxyConstructions # <<>> => HasBothKeys(proxy_config)

\* C8 as stated: every invocation makes exactly one fetch call.
C8_ExactlyOneFetch ==
    Returned => Len(FetchCalls) = invocations

FailedBeforeFetch ==
    Failed /\ failure.type \in {"TypeError", "ValueError", "RuntimeError"}

\* C8 amended: an invocation makes at most one fetch call and never a second
\* one after a failure; it makes exactly one unless the proxy-key check, the
\* credential lookup or a client construction raised, and none then.
C8_AtMostOneFetch ==
    /\ Len(FetchCalls) <= invocations
    /\ Returned => Len(FetchCalls) = (IF FailedBeforeFetch THEN 0 ELSE 1)

C8_Witness ==
    /\ Failed
    /\ failure.type = "RequestBlocked"
    /\ Len(FetchCalls) = 1
    /\ FetchCalls[1].path = "proxy"

\* C9: in a success result snippet_count is the length of snippets.
C9_SnippetCount ==
    Succeeded => result.snippet_count = Len(result.snippets)

C9_Witness ==
    /\ Succeeded
    /\ result.snippet_count = 2
    /\ Len(result.snippets) = 2

\* C10: the snippets of a success result are the returned segments copied
\* one by one in the same order: the i-th snippet has the text, start and
\* duration of the i-th segment; none dropped, duplicated or reordered.
C10_OrderPreservingCopy ==
    Succeeded =>
        /\ Len(result.snippets) = Len(fetched.segs)
        /\ \A i \in 1..Len(fetched.segs) :
              result.snippets[i] = [text |-> fetched.segs[i].text,
                                    start |-> fetched.segs[i].start,
                                    duration |-> fetched.segs[i].duration]

C10_Witness ==
    /\ Succeeded
    /\ Len(fetched.segs) = 2
    /\ fetched.segs[1] # fetched.segs[2]
    /\ result.snippets[1].text = "hi"
    /\ result.snippets[2].text = "yo"

====
